---- MODULE Spec2Model ----
(***************************************************************************)
(* Processed-video index of the YouTube summarizer: the claim / commit /   *)
(* checkpoint protocol of src/tools/notes.py and src/local_fetcher.py over *)
(* one S3 document (NOTES_BACKEND = "s3").                                 *)
(*                                                                         *)
(* Every process is an independent invocation (a local fetcher run, a      *)
(* Lambda pipeline run, an agent run).  A read-modify-write of the index   *)
(* is two steps, the load and the put, and other processes may step in     *)
(* between.  A load is one step although it may read two keys: the legacy  *)
(* key is never written, so a load that saw the canonical key absent and   *)
(* then read the legacy key returns what an atomic load at the time of the *)
(* canonical read returns; the retries of is_video_processed_s3 likewise   *)
(* return what its last canonical read decides.                            *)
(***************************************************************************)
EXTENDS Integers, Sequences, FiniteSets, TLC

VARIABLES
    store,    \* the two S3 keys: canon = metadata/processed_videos.json,
              \* legacy = notes/processed_videos.json
    now,      \* datetime.now()
    pc,       \* where each process is
    op,       \* the operation each process runs, with its arguments
    loaded,   \* the document each process loaded (its local `index`)
    invoked,  \* per video, how many times the Lambda pipeline was started
    started,  \* operations started so far
    overlap,  \* history: some save overwrote a canonical key that another
              \* save had changed since the saver's load
    ev,       \* the call the last step made or finished
    batch,    \* a run over several feeds (Lambda batch, run_scheduled,
              \* local_fetcher.main): its feeds, its position, its results
    notes,    \* the notes in the bucket: the paths save_to_s3 has written
    agent     \* one run of the agent loop (run_agent or
              \* run_agent_with_transcript): its turn, the response it is
              \* working through, its messages and its index writes

vars == <<store, now, pc, op, loaded, invoked, started, overlap, ev, batch, notes, agent>>

(* ------------------------------ bounds --------------------------------- *)
MaxClock == 2
MaxOps == 2

Procs == {"p1", "p2"}
\* the video the feeds currently list; "v0" is an older video that only
\* documents of earlier runs mention
Vids == {"v1"}

(* ---------------------------- constants -------------------------------- *)
\* is_video_processed_s3(video_id, max_retries=2)
max_retries == 2
\* existing.get("processing_started") of a record without the field: None
None == 0
\* Config(retries={"max_attempts": 0}) of the Lambda client
max_attempts == 0

\* outcomes the storage client can produce besides the answer of the store:
\* a ClientError whose code is not NoSuchKey (AccessDenied, SlowDown, ...)
\* or an exception that is no ClientError (connection error, read timeout)
Faults == {"none", "client", "other"}

EmptyMap == << >>
empty_index == [videos |-> EmptyMap, channels |-> EmptyMap]

Put(f, k, v) == [x \in (DOMAIN f) \cup {k} |-> IF x = k THEN v ELSE f[x]]

\* d.get(k, {})
GetOr(d, k) == IF k \in DOMAIN d THEN d[k] ELSE EmptyMap

\* what the feed reader returns for a video: title, channel_id, channel_name
VideoInfo(v) ==
    [title |-> IF v = "v1" THEN "t1" ELSE "t2",
     channel_id |-> "UC1", channel_name |-> "Chan"]

\* the arguments the agent passes to save_note: its own title for the note,
\* channel_id or "" and channel_name or "" (no channel id in the video flow)
NoteArgs ==
    {[title |-> "note", channel_id |-> "", channel_name |-> "Chan"]}

\* the environment of one call: whether NOTES_S3_BUCKET is set, the fault of
\* each read of the canonical key (fs) and of the read of the legacy key (f2).
\* Once a read of the canonical key went through no later one is made.
FaultRuns ==
    {fs \in [1..(max_retries + 1) -> Faults] :
        \A i \in 1..max_retries : fs[i] = "none" => fs[i + 1] = "none"}
NoBucket == [bucket |-> FALSE, fs |-> [i \in 1..(max_retries + 1) |-> "none"], f2 |-> "none"]
RetryEnvs == {NoBucket} \cup [bucket : {TRUE}, fs : FaultRuns, f2 : Faults]
LoadEnvs == {e \in RetryEnvs : \A i \in 2..(max_retries + 1) : e.fs[i] = "none"}

NoArgs == [title |-> "", channel_id |-> "", channel_name |-> ""]
NoOp == [kind |-> "none", vid |-> "none", args |-> NoArgs, note_path |-> <<>>, src |-> "none"]

\* s3://bucket/notes/<timestamp>_<title>.md
save_to_s3(title, t) == <<"notes", t, title>>

(* ------------------------------ the store ------------------------------ *)
Absent == [kind |-> "absent"]
Garbage == [kind |-> "garbage"]
Json(d) == [kind |-> "json", doc |-> d]

\* s3.get_object + json.loads of one key, under a fault of the client
GetObject(slot, fault) ==
    IF fault = "client" THEN [r |-> "ClientError", doc |-> empty_index]
    ELSE IF fault = "other" THEN [r |-> "Exception", doc |-> empty_index]
    ELSE IF slot.kind = "absent" THEN [r |-> "NoSuchKey", doc |-> empty_index]
    ELSE IF slot.kind = "garbage" THEN [r |-> "JSONDecodeError", doc |-> empty_index]
    ELSE [r |-> "ok", doc |-> slot.doc]

Raise(e) == [exc |-> e, src |-> "error", doc |-> empty_index]
Return(d, s) == [exc |-> "none", src |-> s, doc |-> d]

\* faulty variant: the legacy key is never read
_load_index_from_s3_nofallback(st, bucket, f1, f2) ==
    IF ~bucket THEN Raise("ValueError")
    ELSE LET g1 == GetObject(st.canon, f1) IN
         IF g1.r = "ok" THEN Return(g1.doc, "canon")
         ELSE IF g1.r = "NoSuchKey" THEN Raise("FileNotFoundError")
              ELSE Raise(g1.r)

_load_index_from_s3(st, bucket, f1, f2) ==
    IF ~bucket THEN Raise("ValueError")
    ELSE LET g1 == GetObject(st.canon, f1) IN
         IF g1.r = "ok" THEN Return(g1.doc, "canon")
         ELSE IF g1.r = "NoSuchKey"
              THEN LET g2 == GetObject(st.legacy, f2) IN
                   IF g2.r = "ok" THEN Return(g2.doc, "legacy")
                   ELSE IF g2.r \in {"NoSuchKey", "ClientError"}
                        THEN Raise("FileNotFoundError")
                        ELSE Raise(g2.r)
              ELSE Raise(g1.r)

\* faulty variant: a document absent at both keys is a load error too
load_processed_index_nofresh(st, bucket, f1, f2) ==
    LET r == _load_index_from_s3(st, bucket, f1, f2) IN
    IF r.exc = "none" THEN r ELSE Raise("ProcessedIndexLoadError")

load_processed_index(st, bucket, f1, f2) ==
    LET r == _load_index_from_s3(st, bucket, f1, f2) IN
    IF r.exc = "none" THEN r
    ELSE IF r.exc = "FileNotFoundError" THEN Return(empty_index, "fresh")
    ELSE Raise("ProcessedIndexLoadError")


\* `video_id in processed.get("videos", {})`
HasVideo(d, vid) == vid \in DOMAIN GetOr(d, "videos")

(* ------------------- local_fetcher.is_video_processed_s3 --------------- *)
\* fs[i] is the fault of the i-th read of the canonical key, f2 the fault of
\* the read of the legacy key
\* faulty variant: one read of the canonical key, no retry
is_video_processed_s3_noretry(st, vid, bucket, fs, f2) ==
    IF ~bucket THEN [ret |-> TRUE, src |-> "error", reads |-> 0, legacy_reads |-> 0]
    ELSE LET g1 == GetObject(st.canon, fs[1]) IN
         IF g1.r = "ok"
         THEN [ret |-> HasVideo(g1.doc, vid), src |-> "canon", reads |-> 1, legacy_reads |-> 0]
         ELSE IF g1.r = "NoSuchKey"
              THEN LET g2 == GetObject(st.legacy, f2) IN
                   [ret |-> g2.r = "ok" /\ HasVideo(g2.doc, vid),
                    src |-> IF g2.r = "ok" THEN "legacy" ELSE "error",
                    reads |-> 1, legacy_reads |-> 1]
              ELSE [ret |-> TRUE, src |-> "error", reads |-> 1, legacy_reads |-> 0]

\* reads counts the get_object calls on the canonical key, legacy_reads
\* those on the legacy key
RECURSIVE S3CheckLoop(_, _, _, _, _)
S3CheckLoop(st, vid, fs, f2, attempt) ==
    LET g1 == GetObject(st.canon, fs[attempt + 1]) IN
    IF g1.r = "ok"
    THEN [ret |-> HasVideo(g1.doc, vid), src |-> "canon", reads |-> attempt + 1,
          legacy_reads |-> 0]
    ELSE IF g1.r = "NoSuchKey"
         THEN LET g2 == GetObject(st.legacy, f2) IN
              IF g2.r = "ok"
              THEN [ret |-> HasVideo(g2.doc, vid), src |-> "legacy", reads |-> attempt + 1,
                    legacy_reads |-> 1]
              ELSE IF g2.r = "NoSuchKey"
                   THEN [ret |-> FALSE, src |-> "fresh", reads |-> attempt + 1,
                         legacy_reads |-> 1]
                   ELSE [ret |-> FALSE, src |-> "error", reads |-> attempt + 1,
                         legacy_reads |-> 1]
         ELSE IF attempt < max_retries
              THEN S3CheckLoop(st, vid, fs, f2, attempt + 1)
              ELSE [ret |-> TRUE, src |-> "error", reads |-> attempt + 1,
                    legacy_reads |-> 0]

is_video_processed_s3(st, vid, bucket, fs, f2) ==
    IF ~bucket THEN [ret |-> TRUE, src |-> "error", reads |-> 0, legacy_reads |-> 0]
    ELSE S3CheckLoop(st, vid, fs, f2, 0)

(* ------------------------ notes.is_video_processed --------------------- *)
\* faulty variant: only a record with status processed counts
is_video_processed_strict(st, vid, bucket, f1, f2) ==
    LET r == load_processed_index(st, bucket, f1, f2) IN
    IF r.exc # "none" THEN [ret |-> TRUE, src |-> "error"]
    ELSE [ret |-> HasVideo(r.doc, vid) /\ r.doc.videos[vid].status = "processed",
          src |-> r.src]

is_video_processed(st, vid, bucket, f1, f2) ==
    LET r == load_processed_index(st, bucket, f1, f2) IN
    IF r.exc # "none" THEN [ret |-> TRUE, src |-> "error"]
    ELSE [ret |-> HasVideo(r.doc, vid), src |-> r.src]

(* ------------------ local_fetcher.mark_video_processing_s3 ------------- *)
\* the load at the head of the claim
ClaimLoadIndex(st, bucket, f1, f2) ==
    IF ~bucket THEN Raise("NoBucket")
    ELSE LET g1 == GetObject(st.canon, f1) IN
         IF g1.r = "ok" THEN Return(g1.doc, "canon")
         ELSE IF g1.r = "NoSuchKey"
              THEN LET g2 == GetObject(st.legacy, f2) IN
                   IF g2.r = "ok" THEN Return(g2.doc, "legacy")
                   ELSE IF g2.r = "NoSuchKey" THEN Return(empty_index, "fresh")
                   ELSE Raise(g2.r)
              ELSE Raise(g1.r)

\* faulty variant: the claim without its presence check
ClaimDecision_nocheck(r, vid) ==
    IF r.exc # "none" THEN "error"
    ELSE IF "videos" \notin DOMAIN r.doc THEN "keyerror"
    ELSE "write"

\* what the claim does after its load r: "error" (the load raised, the outer
\* except returns False), "present" (return False), "keyerror"
\* (processed["videos"] raises, return False) or "write"
ClaimDecision(r, vid) ==
    IF r.exc # "none" THEN "error"
    ELSE IF HasVideo(r.doc, vid) THEN "present"
    ELSE IF "videos" \notin DOMAIN r.doc THEN "keyerror"
    ELSE "write"

ProcessingRecord(args, t) ==
    [processing_started |-> t, status |-> "processing", title |-> args.title,
     channel_id |-> args.channel_id, channel_name |-> args.channel_name]

\* faulty variant: the claim writes a new index that holds its record only
ClaimDoc_rebuild(d, vid, args, t) ==
    [videos |-> Put(EmptyMap, vid, ProcessingRecord(args, t)), channels |-> EmptyMap]

ClaimDoc(d, vid, args, t) ==
    [d EXCEPT !.videos = Put(d.videos, vid, ProcessingRecord(args, t))]

(* ----------------------- notes.mark_video_processed -------------------- *)
\* faulty variant: the load error is swallowed and the write goes on
MarkProcessedSkips_never(r) == FALSE

\* except ProcessedIndexLoadError: return
MarkProcessedSkips(r) == r.exc = "ProcessedIndexLoadError"

\* existing.get("processing_started")
\* faulty variant: the commit forgets the claim's timestamp
PreservedStart_reset(existing) == None

PreservedStart(existing) ==
    IF "processing_started" \in DOMAIN existing
    THEN existing.processing_started ELSE None

\* faulty variant: the commit adds its fields to the record it found
ProcessedRecord_merged(existing, args, note_path, t) ==
    Put(Put(Put(existing, "status", "processing"), "processed_at", t), "note_path", note_path)

ProcessedRecord(existing, args, note_path, t) ==
    [processed_at |-> t, processing_started |-> PreservedStart(existing),
     status |-> "processed", title |-> args.title,
     channel_id |-> args.channel_id, channel_name |-> args.channel_name,
     note_path |-> note_path]

\* faulty variant: the commit writes a new index that holds its record only
CommitDoc_rebuild(d, vid, args, note_path, t) ==
    [videos |-> Put(EmptyMap, vid, ProcessedRecord(EmptyMap, args, note_path, t)),
     channels |-> EmptyMap]

CommitDoc(d, vid, args, note_path, t) ==
    LET index == IF "videos" \in DOMAIN d THEN d ELSE Put(d, "videos", EmptyMap)
        existing == GetOr(index.videos, vid)
    IN  Put(index, "videos",
            Put(index.videos, vid, ProcessedRecord(existing, args, note_path, t)))

(* ---------------------- notes.update_channel_checked ------------------- *)
\* except ProcessedIndexLoadError: return
ChannelCheckedSkips(r) == r.exc = "ProcessedIndexLoadError"

ChannelRecord(args, vid, t) ==
    [name |-> args.channel_name, url |-> <<"url", args.channel_id>>,
     last_checked |-> t, last_video_id |-> vid]

\* faulty variant: the checkpoint writes a new index that holds its record only
CheckpointDoc_rebuild(d, vid, args, t) ==
    [videos |-> EmptyMap,
     channels |-> Put(EmptyMap, args.channel_id, ChannelRecord(args, vid, t))]

CheckpointDoc(d, vid, args, t) ==
    LET index == IF "channels" \in DOMAIN d THEN d ELSE Put(d, "channels", EmptyMap)
    IN  Put(index, "channels",
            Put(index.channels, args.channel_id, ChannelRecord(args, vid, t)))

\* _save_index_to_s3 / the put_object of the claim: the canonical key only
\* faulty variant: the save goes to the key the document was migrated from
SaveIndex_legacy(st, d) == [st EXCEPT !.legacy = Json(d)]

SaveIndex(st, d) == [st EXCEPT !.canon = Json(d)]


(* ------------------------------ the state ------------------------------ *)
\* documents an earlier deployment may have left behind
OldProcessed ==
    [processed_at |-> 1, processing_started |-> None, status |-> "processed",
     title |-> "t1", channel_id |-> "UC1", channel_name |-> "Chan",
     note_path |-> <<"notes", 1, "t1">>]
OldDoc == [videos |-> Put(EmptyMap, "v1", OldProcessed), channels |-> EmptyMap]
BystanderDoc == [videos |-> Put(EmptyMap, "v0", OldProcessed), channels |-> EmptyMap]
ClaimedDoc ==
    [videos |-> Put(EmptyMap, "v1", ProcessingRecord(VideoInfo("v1"), 1)),
     channels |-> EmptyMap]
\* a document of another writer version, without the "videos" key
ForeignDoc == [channels |-> EmptyMap]
\* a document of a newer writer version: the records of v1 and of channel
\* UC1 carry a field this version does not know, next to another video and
\* another channel
NewerDoc ==
    [videos |-> Put(Put(EmptyMap, "v0", OldProcessed),
                    "v1", Put(ProcessingRecord(VideoInfo("v1"), 1), "priority", "high")),
     channels |-> Put(Put(EmptyMap, "UC0", ChannelRecord(VideoInfo("v0"), "v0", 1)),
                      "UC1", Put(ChannelRecord(VideoInfo("v1"), "v0", 1), "etag", "e1"))]

InitStores ==
    {[canon |-> Absent, legacy |-> Absent],
     [canon |-> Absent, legacy |-> Json(OldDoc)],
     [canon |-> Json(OldDoc), legacy |-> Absent],
     [canon |-> Json(ClaimedDoc), legacy |-> Absent],
     [canon |-> Json(BystanderDoc), legacy |-> Absent],
     [canon |-> Absent, legacy |-> Json(BystanderDoc)],
     [canon |-> Json(ForeignDoc), legacy |-> Absent],
     [canon |-> Json(NewerDoc), legacy |-> Absent],
     [canon |-> Absent, legacy |-> Garbage],
     [canon |-> Garbage, legacy |-> Json(OldDoc)]}

B(b) == IF b THEN "True" ELSE "False"

\* no run over several feeds is under way
NoAgent == [entry |-> "none", max_turns |-> 0, turn |-> 0, pc |-> "none",
            stop_reason |-> "none", content |-> <<>>, i |-> 1, executed |-> <<>>,
            tool_results |-> 0, assistant_msgs |-> 0, result_msgs |-> 0,
            writes |-> {}]
NoBatch == [entry |-> "none", given |-> <<>>, feeds |-> <<>>, i |-> 1,
            results |-> <<>>, pc |-> "none", status |-> "none",
            total |-> 0, successful |-> 0, failed |-> 0]

\* the call that the last step made or finished: which load it did (the key
\* the document came from, "fresh" for the empty index, "error"), whether it
\* called put_object, what the call returned, what the enclosing
\* fetch_and_process / Lambda handler returned if it ended with this step,
\* and whether its reads met a storage fault
Event(p, call, vid, load, put, ret, out) ==
    [call |-> call, vid |-> vid, load |-> load, put |-> put,
     ret |-> ret, out |-> out, fault |-> "False"]

\* whether the reads of a call under environment e met a storage fault: the
\* bucket is not configured, or a get_object that the call made raised
\* something other than NoSuchKey (the legacy key is read only when the
\* canonical key is absent; faults of the canonical reads come first in fs)
MetFault(st, e) ==
    \/ ~e.bucket
    \/ e.fs[1] # "none"
    \/ (st.canon.kind = "absent" /\ e.f2 # "none")
\* the event of a call that read the store under environment e
Read(evt, st, e) == [evt EXCEPT !.fault = B(MetFault(st, e))]

Init ==
    /\ store \in InitStores
    /\ now = 1
    /\ pc = [p \in Procs |-> "idle"]
    /\ op = [p \in Procs |-> NoOp]
    /\ loaded = [p \in Procs |-> empty_index]
    /\ invoked = [v \in Vids |-> 0]
    /\ started = 0
    /\ overlap = FALSE
    /\ ev = Event("none", "init", "none", "none", "none", "None", "None")
    /\ batch = NoBatch
    /\ notes = {OldProcessed.note_path}
    /\ agent = NoAgent

Goto(p, l) == pc' = [pc EXCEPT ![p] = l]
Finish(p) ==
    /\ pc' = [pc EXCEPT ![p] = "idle"]
    /\ op' = [op EXCEPT ![p] = NoOp]
    /\ loaded' = [loaded EXCEPT ![p] = empty_index]
\* the canonical key is still as the load of p saw it
Current(p) ==
    IF op[p].src = "canon" THEN store.canon = Json(loaded[p])
    ELSE op[p].src \in {"legacy", "fresh"} /\ store.canon.kind = "absent"
\* p calls put_object with document d; it goes through or raises
PutIndex(p, d, putOk) ==
    /\ store' = IF putOk THEN SaveIndex(store, d) ELSE store
    /\ overlap' = (overlap \/ (putOk /\ ~Current(p)))
Pending(p, l, r) ==
    /\ Goto(p, l)
    /\ loaded' = [loaded EXCEPT ![p] = r.doc]
Begin(p) ==
    /\ pc[p] = "idle"
    /\ started < MaxOps
    /\ started' = started + 1

\* datetime.now() moves on
Tick ==
    /\ now < MaxClock
    /\ now' = now + 1
    /\ ev' = Event("none", "tick", "none", "none", "none", "None", "None")
    /\ UNCHANGED <<store, pc, op, loaded, invoked, started, overlap>>
    /\ UNCHANGED batch
    /\ UNCHANGED agent
    /\ UNCHANGED notes

(* ---------------------- local_fetcher.fetch_and_process ---------------- *)
\* 1. the feed reader fails: return False
PollFeedFail(p) ==
    /\ Begin(p)
    /\ ev' = Event(p, "feed", "none", "none", "none", "error", "False")
    /\ UNCHANGED <<store, now, pc, op, loaded, invoked, overlap>>
    /\ UNCHANGED batch
    /\ UNCHANGED agent
    /\ UNCHANGED notes

\* 1. the feed reader returns video v; is_video_processed_s3(v).  (The feed
\*    reader also evaluates is_video_processed(v); fetch_and_process does
\*    not use that answer and it writes nothing.)
PollCheck(p, v) ==
    /\ Begin(p)
    /\ \E e \in RetryEnvs :
         LET r == is_video_processed_s3(store, v, e.bucket, e.fs, e.f2) IN
         /\ ev' = Read(Event(p, "is_video_processed_s3", v, r.src, "none", B(r.ret),
                        IF r.ret THEN "True" ELSE "None"), store, e)
         /\ IF r.ret
            THEN UNCHANGED <<pc, op>>
            ELSE /\ Goto(p, "new")
                 /\ op' = [op EXCEPT ![p] = [kind |-> "poll", vid |-> v,
                                             args |-> VideoInfo(v), note_path |-> <<>>, src |-> "none"]]
    /\ UNCHANGED <<store, now, loaded, invoked, overlap>>
    /\ UNCHANGED batch
    /\ UNCHANGED agent
    /\ UNCHANGED notes

\* faulty variant: the transcript is fetched after the claim was written
TranscriptStage_after_claim == "invoke"

\* where fetch_and_process fetches the transcript: after the check found the
\* video new, before mark_video_processing_s3
TranscriptStage == "new"

\* 2. the transcript fetch fails: return False
PollTranscriptFail(p) ==
    /\ pc[p] = TranscriptStage
    /\ ev' = Event(p, "transcript", op[p].vid, "none", "none", "error", "False")
    /\ Finish(p)
    /\ UNCHANGED <<store, now, invoked, started, overlap>>
    /\ UNCHANGED batch
    /\ UNCHANGED agent
    /\ UNCHANGED notes

\* 3. mark_video_processing_s3 up to its put_object; when the claim returns
\*    False here, fetch_and_process returns True
ClaimLoad(p) ==
    /\ pc[p] = "new"
    /\ \E e \in LoadEnvs :
         LET r == ClaimLoadIndex(store, e.bucket, e.fs[1], e.f2)
             v == op[p].vid
         IN  IF ClaimDecision(r, v) = "write"
             THEN /\ Pending(p, "claim_save", r)
                  /\ op' = [op EXCEPT ![p].src = r.src]
                  /\ ev' = Read(Event(p, "claim_load", v, r.src, "none", "None", "None"), store, e)
             ELSE /\ Finish(p)
                  /\ ev' = Read(Event(p, "claim", v, r.src, "none", "False", "True"), store, e)
    /\ UNCHANGED <<store, now, invoked, started, overlap>>
    /\ UNCHANGED batch
    /\ UNCHANGED agent
    /\ UNCHANGED notes

\* faulty variant: the claim reports True whatever the put did
ClaimReturns_optimistic(putOk) == TRUE

\* 3. the value mark_video_processing_s3 returns once it reached put_object:
\*    True after the put, False from the except clause when the put raised
ClaimReturns(putOk) == putOk

\* 3. the put_object of the claim
ClaimSave(p) ==
    /\ pc[p] = "claim_save"
    /\ \E putOk \in BOOLEAN :
         /\ PutIndex(p, ClaimDoc(loaded[p], op[p].vid, op[p].args, now), putOk)
         /\ IF ClaimReturns(putOk)
            THEN /\ Goto(p, "invoke")
                 /\ loaded' = [loaded EXCEPT ![p] = empty_index]
                 /\ op' = [op EXCEPT ![p].src = "none"]
                 /\ ev' = Event(p, "claim", op[p].vid, op[p].src,
                                IF putOk THEN "ok" ELSE "failed", "True", "None")
            ELSE /\ Finish(p)
                 /\ ev' = Event(p, "claim", op[p].vid, op[p].src, "failed", "False", "True")
    /\ UNCHANGED <<now, invoked, started>>
    /\ UNCHANGED batch
    /\ UNCHANGED agent
    /\ UNCHANGED notes

\* 4. lambda_client.invoke raises before the function ran: return False
InvokeFail(p) ==
    /\ pc[p] = "invoke"
    /\ ev' = Event(p, "invoke", op[p].vid, "none", "none", "error", "False")
    /\ Finish(p)
    /\ UNCHANGED <<store, now, invoked, started, overlap>>
    /\ UNCHANGED batch
    /\ UNCHANGED agent
    /\ UNCHANGED notes

\* faulty variant: the client issues the request again after a timeout
InvokeRequests_retrying == {1, 2}

\* how many times the client may issue the invoke request of one call: once,
\* and once more per retry it is configured to make
InvokeRequests == 1..(1 + max_attempts)

\* 4. the Lambda function starts the pipeline for the video
Invoke(p) ==
    /\ pc[p] = "invoke"
    /\ \E n \in InvokeRequests :
         invoked' = [invoked EXCEPT ![op[p].vid] = @ + n]
    /\ Goto(p, "pipeline")
    /\ ev' = Event(p, "invoke", op[p].vid, "none", "none", "None", "None")
    /\ UNCHANGED <<store, now, op, loaded, started, overlap>>
    /\ UNCHANGED batch
    /\ UNCHANGED agent
    /\ UNCHANGED notes

(* --------------------------- the pipeline run --------------------------- *)
\* The agent calls save_note with the video id once in a run (step 3 of
\* SYSTEM_PROMPT); a further commit of the same id is a further run.
\* run_agent on a video URL, outside the poller
StartAgent(p, v) ==
    /\ Begin(p)
    /\ Goto(p, "pipeline")
    /\ op' = [op EXCEPT ![p] = [kind |-> "agent", vid |-> v,
                                args |-> NoArgs, note_path |-> <<>>, src |-> "none"]]
    /\ ev' = Event(p, "run_agent", v, "none", "none", "None", "None")
    /\ UNCHANGED <<store, now, loaded, invoked, overlap>>
    /\ UNCHANGED batch
    /\ UNCHANGED agent
    /\ UNCHANGED notes

\* the agent run ends: statusCode 200, or 500 when it raised
PipelineEnd(p) ==
    /\ pc[p] \in {"pipeline", "wrapup"}
    /\ \E ok \in BOOLEAN :
         ev' = Event(p, "pipeline_end", op[p].vid, "none", "none", "None", B(ok))
    /\ Finish(p)
    /\ UNCHANGED <<store, now, invoked, started, overlap>>
    /\ UNCHANGED batch
    /\ UNCHANGED agent
    /\ UNCHANGED notes

\* save_note whose note write fails (or whose content is empty): an error
\* result, mark_video_processed is not reached
SaveNoteFail(p) ==
    /\ pc[p] = "pipeline"
    /\ ev' = Event(p, "save_note", op[p].vid, "none", "none", "error", "None")
    /\ Goto(p, "wrapup")
    /\ UNCHANGED <<store, now, op, loaded, invoked, started, overlap>>
    /\ UNCHANGED batch
    /\ UNCHANGED agent
    /\ UNCHANGED notes

\* faulty variant: the commit goes on although the note was not written
NoteWritten_lost(path) == {}

\* s3.put_object of save_to_s3 went through: the note is in the bucket
NoteWritten(path) == {path}

\* save_note(video_id = v): the note is written, then mark_video_processed
\* loads the index; on ProcessedIndexLoadError it returns and save_note
\* reports success
CommitLoad(p) ==
    /\ pc[p] = "pipeline"
    /\ \E args \in NoteArgs, e \in LoadEnvs \ {NoBucket} :
         LET r == load_processed_index(store, e.bucket, e.fs[1], e.f2)
             v == op[p].vid
         IN  /\ notes' = notes \cup NoteWritten(save_to_s3(args.title, now))
             /\ IF ~MarkProcessedSkips(r)
                 THEN /\ Pending(p, "commit_save", r)
                      /\ op' = [op EXCEPT ![p].args = args, ![p].src = r.src,
                                          ![p].note_path = save_to_s3(args.title, now)]
                      /\ ev' = Read(Event(p, "commit_load", v, r.src, "none", "None", "None"), store, e)
                 ELSE /\ Goto(p, "wrapup")
                      /\ UNCHANGED <<op, loaded>>
                      /\ ev' = Read(Event(p, "commit", v, "error", "none", "success", "None"), store, e)
    /\ UNCHANGED <<store, now, invoked, started, overlap>>
    /\ UNCHANGED batch
    /\ UNCHANGED agent

\* save_processed_index of mark_video_processed; when it raises, save_note
\* catches it and returns an error result
CommitSave(p) ==
    /\ pc[p] = "commit_save"
    /\ \E putOk \in BOOLEAN :
         /\ PutIndex(p, CommitDoc(loaded[p], op[p].vid, op[p].args, op[p].note_path, now),
                     putOk)
         /\ ev' = Event(p, "commit", op[p].vid, op[p].src, IF putOk THEN "ok" ELSE "failed",
                        IF putOk THEN "success" ELSE "error", "None")
    /\ Goto(p, "wrapup")
    /\ loaded' = [loaded EXCEPT ![p] = empty_index]
    /\ op' = [op EXCEPT ![p].src = "none"]
    /\ UNCHANGED <<now, invoked, started>>
    /\ UNCHANGED batch
    /\ UNCHANGED agent
    /\ UNCHANGED notes

\* what a send can meet: delivered, a request timeout, an HTTP error, an
\* error answer of the Slack API, neither SLACK_WEBHOOK_URL nor SLACK_BOT_TOKEN
NotifyOutcomes == {"sent", "timeout", "http_error", "api_error", "no_config"}

\* faulty variant: a failed send raises out of the tool
NotifyResult_raising(o) == IF o = "sent" THEN "success" ELSE "raise"

\* the value send_slack_notification returns: success, success with
\* skipped = True when nothing is configured, else success False with an error
NotifyResult(o) ==
    IF o = "sent" THEN "success"
    ELSE IF o = "no_config" THEN "skipped"
    ELSE "error"

\* the agent calls send_slack_notification, before or after save_note; an
\* exception out of the tool would end the run
Notify(p) ==
    /\ pc[p] \in {"pipeline", "wrapup"}
    /\ \E o \in NotifyOutcomes :
         IF NotifyResult(o) = "raise"
         THEN /\ Finish(p)
              /\ ev' = Event(p, "send_slack_notification", op[p].vid, "none", "none",
                             "raise", "False")
         ELSE /\ UNCHANGED <<pc, op, loaded>>
              /\ ev' = Event(p, "send_slack_notification", op[p].vid, "none", "none",
                             NotifyResult(o), "None")
    /\ UNCHANGED <<store, now, invoked, started, overlap>>
    /\ UNCHANGED batch
    /\ UNCHANGED agent
    /\ UNCHANGED notes

(* ------------- the agent's get_latest_channel_video tool ---------------- *)
\* _get_latest_channel_video_impl: the feed reader returns v and
\* is_video_processed(v) fills is_already_processed
GetLatest(p, v) ==
    /\ Begin(p)
    /\ \E e \in LoadEnvs :
         LET r == is_video_processed(store, v, e.bucket, e.fs[1], e.f2) IN
         ev' = Read(Event(p, "is_video_processed", v, r.src, "none", B(r.ret), "None"), store, e)
    /\ Goto(p, "got_latest")
    /\ op' = [op EXCEPT ![p] = [kind |-> "channel", vid |-> v,
                                args |-> VideoInfo(v), note_path |-> <<>>, src |-> "none"]]
    /\ UNCHANGED <<store, now, loaded, invoked, overlap>>
    /\ UNCHANGED batch
    /\ UNCHANGED agent
    /\ UNCHANGED notes

\* handle_tool_call: update_channel_checked up to its save
CheckpointLoad(p) ==
    /\ pc[p] = "got_latest"
    /\ \E e \in LoadEnvs :
         LET r == load_processed_index(store, e.bucket, e.fs[1], e.f2)
             v == op[p].vid
         IN  IF ~ChannelCheckedSkips(r)
             THEN /\ Pending(p, "checkpoint_save", r)
                  /\ op' = [op EXCEPT ![p].src = r.src]
                  /\ ev' = Read(Event(p, "checkpoint_load", v, r.src, "none", "None", "None"), store, e)
             ELSE /\ Finish(p)
                  /\ ev' = Read(Event(p, "checkpoint", v, "error", "none", "None", "None"), store, e)
    /\ UNCHANGED <<store, now, invoked, started, overlap>>
    /\ UNCHANGED batch
    /\ UNCHANGED agent
    /\ UNCHANGED notes

\* save_processed_index of update_channel_checked; when it raises, the
\* exception leaves handle_tool_call and run_agent, and the caller of
\* run_agent reports the run as failed
CheckpointSave(p) ==
    /\ pc[p] = "checkpoint_save"
    /\ \E putOk \in BOOLEAN :
         /\ PutIndex(p, CheckpointDoc(loaded[p], op[p].vid, op[p].args, now), putOk)
         /\ ev' = Event(p, "checkpoint", op[p].vid, op[p].src, IF putOk THEN "ok" ELSE "failed",
                        IF putOk THEN "None" ELSE "raise",
                        IF putOk THEN "None" ELSE "False")
    /\ Finish(p)
    /\ UNCHANGED <<now, invoked, started>>
    /\ UNCHANGED batch
    /\ UNCHANGED agent
    /\ UNCHANGED notes

Next ==
    \/ Tick
    \/ \E p \in Procs : PollFeedFail(p)
    \/ \E p \in Procs, v \in Vids : PollCheck(p, v)
    \/ \E p \in Procs : PollTranscriptFail(p)
    \/ \E p \in Procs : ClaimLoad(p)
    \/ \E p \in Procs : ClaimSave(p)
    \/ \E p \in Procs : InvokeFail(p)
    \/ \E p \in Procs : Invoke(p)
    \/ \E p \in Procs, v \in Vids : StartAgent(p, v)
    \/ \E p \in Procs : PipelineEnd(p)
    \/ \E p \in Procs : SaveNoteFail(p)
    \/ \E p \in Procs : CommitLoad(p)
    \/ \E p \in Procs : CommitSave(p)
    \/ \E p \in Procs : Notify(p)
    \/ \E p \in Procs, v \in Vids : GetLatest(p, v)
    \/ \E p \in Procs : CheckpointLoad(p)
    \/ \E p \in Procs : CheckpointSave(p)

Spec == Init /\ [][Next]_vars


(* --------------------- runs over several feeds ------------------------- *)
\* lambda_handler._process_multiple_channels, run_scheduled.main and
\* local_fetcher.main.  A feed of the list is 0 when it is blank, else its
\* place in the list as given (its URL).  What one feed's run does to the
\* index is the matter of the actions above; here a run of one feed is its
\* outcome: run_agent returns or raises, fetch_and_process returns True or
\* False.
MaxFeeds == 3
Entries == {"lambda", "run_scheduled", "local_fetcher"}
FeedLists ==
    UNION {[1..n -> {"", "url"}] : n \in 1..MaxFeeds}
Feeds(given) == [k \in 1..Len(given) |-> IF given[k] = "" THEN 0 ELSE k]
NonBlank(f) == f # 0

\* faulty variant: the batch reports 200 whatever failed
BatchStatusCode_always200(failed) == 200

\* "statusCode": 200 if failed == 0 else 207
BatchStatusCode(failed) == IF failed = 0 THEN 200 ELSE 207
\* sys.exit(0 if failed == 0 else 1)
ExitCode(failed) == IF failed = 0 THEN 0 ELSE 1

\* sum(1 for r in results if r["success"])
Successful(results) == Cardinality({k \in 1..Len(results) : results[k].success})

\* the handler is called with channel_urls, or a CLI with MONITOR_CHANNEL_URLS
InitBatch ==
    /\ store = [canon |-> Absent, legacy |-> Absent]
    /\ now = 1
    /\ pc = [p \in Procs |-> "idle"]
    /\ op = [p \in Procs |-> NoOp]
    /\ loaded = [p \in Procs |-> empty_index]
    /\ invoked = [v \in Vids |-> 0]
    /\ started = 0
    /\ overlap = FALSE
    /\ ev = Event("none", "init", "none", "none", "none", "None", "None")
    /\ notes = {OldProcessed.note_path}
    /\ agent = NoAgent
    /\ \E e \in Entries, g \in FeedLists :
         batch = [entry |-> e, given |-> g, feeds |-> Feeds(g), i |-> 1,
                  results |-> <<>>, pc |-> "start", status |-> "none",
                  total |-> 0, successful |-> 0, failed |-> 0]

MainVars == <<store, now, pc, op, loaded, invoked, started, overlap, ev, notes, agent>>

\* the CLIs keep the non-blank URLs and exit with 1 when none is left; the
\* Lambda batch loops over the list as given
BatchParse ==
    /\ batch.pc = "start"
    /\ IF batch.entry = "lambda"
       THEN batch' = [batch EXCEPT !.pc = "loop"]
       ELSE LET channels == SelectSeq(batch.feeds, NonBlank) IN
            IF channels = <<>>
            THEN batch' = [batch EXCEPT !.pc = "no_channels", !.status = <<"exit", 1>>]
            ELSE batch' = [batch EXCEPT !.pc = "loop", !.feeds = channels]
    /\ UNCHANGED MainVars

\* _process_multiple_channels: `continue` on a blank entry
BatchSkipBlank ==
    /\ batch.pc = "loop"
    /\ batch.i <= Len(batch.feeds)
    /\ batch.feeds[batch.i] = 0
    /\ batch' = [batch EXCEPT !.i = @ + 1]
    /\ UNCHANGED MainVars

\* run_agent(channel_url) returns, with whatever result: success True
BatchRunReturns ==
    /\ batch.pc = "loop"
    /\ batch.entry \in {"lambda", "run_scheduled"}
    /\ batch.i <= Len(batch.feeds)
    /\ batch.feeds[batch.i] # 0
    /\ batch' = [batch EXCEPT !.i = @ + 1,
                  !.results = Append(@, [channel_url |-> batch.feeds[batch.i],
                                         success |-> TRUE])]
    /\ UNCHANGED MainVars

\* run_agent(channel_url) raises: except Exception appends success False
BatchRunRaises ==
    /\ batch.pc = "loop"
    /\ batch.entry \in {"lambda", "run_scheduled"}
    /\ batch.i <= Len(batch.feeds)
    /\ batch.feeds[batch.i] # 0
    /\ batch' = [batch EXCEPT !.i = @ + 1,
                  !.results = Append(@, [channel_url |-> batch.feeds[batch.i],
                                         success |-> FALSE])]
    /\ UNCHANGED MainVars

\* local_fetcher.main: if fetch_and_process(channel_url): success_count += 1
BatchFetch ==
    /\ batch.pc = "loop"
    /\ batch.entry = "local_fetcher"
    /\ batch.i <= Len(batch.feeds)
    /\ \E ok \in BOOLEAN :
         batch' = [batch EXCEPT !.i = @ + 1,
                   !.results = Append(@, [channel_url |-> batch.feeds[batch.i],
                                          success |-> ok])]
    /\ UNCHANGED MainVars

\* the summary after the loop: the Lambda status code, the exit code of
\* run_scheduled; local_fetcher.main prints its count and returns
BatchEnd ==
    /\ batch.pc = "loop"
    /\ batch.i > Len(batch.feeds)
    /\ LET successful == Successful(batch.results)
           failed == Len(batch.results) - successful
       IN  batch' = [batch EXCEPT
                       !.pc = "done",
                       !.total = Len(batch.results),
                       !.successful = successful,
                       !.failed = failed,
                       !.status = IF batch.entry = "lambda"
                                  THEN <<"statusCode", BatchStatusCode(failed)>>
                                  ELSE IF batch.entry = "run_scheduled"
                                       THEN <<"exit", ExitCode(failed)>>
                                       ELSE <<"exit", 0>>]
    /\ UNCHANGED MainVars

NextBatch ==
    \/ BatchParse
    \/ BatchSkipBlank
    \/ BatchRunReturns
    \/ BatchRunRaises
    \/ BatchFetch
    \/ BatchEnd

SpecBatch == InitBatch /\ [][NextBatch]_vars

(* ------------------ agent.run_agent / run_agent_with_transcript --------- *)
\* The agent loop on its own. The model's responses are inputs: a stop
\* reason and a list of content blocks, each a text block or a tool_use
\* block that names one of the tools offered in the request. As the Messages
\* API answers, a response with stop reason end_turn holds no tool_use block
\* and one with stop reason tool_use holds at least one.
\* the values of the max_turns argument are 0..MaxTurns (the default is 10)
MaxTurns == 2
\* most content blocks in one response
MaxBlocks == 2

ALL_TOOLS ==
    {"get_transcript", "save_note", "send_slack_notification", "get_latest_channel_video"}
excluded_tools == {"get_transcript", "get_latest_channel_video"}

\* faulty variant: the pre-fetched run offers every tool
tools_without_transcript_all == ALL_TOOLS

tools_without_transcript == ALL_TOOLS \ excluded_tools

AgentEntries == {"run_agent", "run_agent_with_transcript"}
\* tools = ... of client.messages.create
OfferedTools(entry) ==
    IF entry = "run_agent_with_transcript" THEN tools_without_transcript ELSE ALL_TOOLS

StopReasons == {"end_turn", "tool_use", "max_tokens"}
BlockSeqs(S) == UNION {[1..n -> S] : n \in 0..MaxBlocks}
\* the names of the tool_use blocks of a response, in order
ToolUses(content) == SelectSeq(content, LAMBDA b : b # "text")
Responses(tools) ==
    {r \in [stop_reason : StopReasons, content : BlockSeqs(tools \cup {"text"})] :
        /\ r.stop_reason = "end_turn" => ToolUses(r.content) = <<>>
        /\ r.stop_reason = "tool_use" => ToolUses(r.content) # <<>>}

\* handle_tool_call(name, input): it returns the JSON of the result, or an
\* exception leaves it; and the write to the index it made, if any.
\* get_latest_channel_video: no write when the feed read failed or the load
\* inside update_channel_checked raised its load error, a checkpoint when
\* the save went through, an exception when the save raised.
\* save_note: a commit, or none when the note write, the load or the save
\* failed (save_note catches every exception).
ToolOutcomes(name) ==
    IF name = "get_latest_channel_video"
    THEN {[ret |-> "returns", write |-> "none"],
          [ret |-> "returns", write |-> "checkpoint"],
          [ret |-> "raises", write |-> "none"]}
    ELSE IF name = "save_note"
    THEN {[ret |-> "returns", write |-> "none"],
          [ret |-> "returns", write |-> "commit"]}
    ELSE {[ret |-> "returns", write |-> "none"]}

AgentFrame == UNCHANGED <<store, now, pc, op, loaded, invoked, started, overlap, ev, notes, batch>>

InitAgent ==
    /\ store = [canon |-> Absent, legacy |-> Absent]
    /\ now = 1
    /\ pc = [p \in Procs |-> "idle"]
    /\ op = [p \in Procs |-> NoOp]
    /\ loaded = [p \in Procs |-> empty_index]
    /\ invoked = [v \in Vids |-> 0]
    /\ started = 0
    /\ overlap = FALSE
    /\ ev = Event("none", "init", "none", "none", "none", "None", "None")
    /\ notes = {OldProcessed.note_path}
    /\ batch = NoBatch
    /\ \E e \in AgentEntries, m \in 0..MaxTurns :
         agent = [NoAgent EXCEPT !.entry = e, !.max_turns = m, !.pc = "loop"]

\* for turn in range(max_turns): response = client.messages.create(...);
\* on end_turn the text is collected and the loop is left
AgentCreate ==
    /\ agent.pc = "loop"
    /\ agent.turn < agent.max_turns
    /\ \E r \in Responses(OfferedTools(agent.entry)) :
         agent' = [agent EXCEPT !.turn = @ + 1,
                                !.stop_reason = r.stop_reason,
                                !.content = r.content,
                                !.i = 1, !.executed = <<>>, !.tool_results = 0,
                                !.pc = IF r.stop_reason = "end_turn"
                                       THEN "done" ELSE "blocks"]
    /\ AgentFrame

\* range(max_turns) is used up; "total_turns": turn + 1 raises
\* UnboundLocalError when the loop body never ran
AgentExhausted ==
    /\ agent.pc = "loop"
    /\ agent.turn = agent.max_turns
    /\ agent' = [agent EXCEPT !.pc = IF agent.max_turns = 0 THEN "raised" ELSE "done"]
    /\ AgentFrame

\* for block in response.content: a text block
AgentText ==
    /\ agent.pc = "blocks"
    /\ agent.i <= Len(agent.content)
    /\ agent.content[agent.i] = "text"
    /\ agent' = [agent EXCEPT !.i = @ + 1]
    /\ AgentFrame

\* for block in response.content: a tool_use block. executed holds the
\* names handle_tool_call was called with in this turn
AgentTool ==
    /\ agent.pc = "blocks"
    /\ agent.i <= Len(agent.content)
    /\ agent.content[agent.i] # "text"
    /\ \E o \in ToolOutcomes(agent.content[agent.i]) :
         IF o.ret = "returns"
         THEN agent' = [agent EXCEPT !.i = @ + 1,
                                     !.executed = Append(@, agent.content[agent.i]),
                                     !.tool_results = @ + 1,
                                     !.writes = IF o.write = "none" THEN @
                                                ELSE @ \cup {o.write}]
         ELSE agent' = [agent EXCEPT !.pc = "raised",
                                     !.executed = Append(@, agent.content[agent.i])]
    /\ AgentFrame

\* messages.append(assistant); if tool_results: messages.append(user)
\* else: break
AgentTurnEnd ==
    /\ agent.pc = "blocks"
    /\ agent.i > Len(agent.content)
    /\ agent' = [agent EXCEPT !.assistant_msgs = @ + 1,
                              !.result_msgs = IF agent.tool_results > 0 THEN @ + 1 ELSE @,
                              !.pc = IF agent.tool_results > 0 THEN "loop" ELSE "done"]
    /\ AgentFrame

NextAgent ==
    \/ AgentCreate
    \/ AgentExhausted
    \/ AgentText
    \/ AgentTool
    \/ AgentTurnEnd

SpecAgent == InitAgent /\ [][NextAgent]_vars

(* ------------- the checks and the loads, one call at a time ------------- *)
\* One call of is_video_processed_s3, or one call of each of the two checks
\* or of the two loads against the same store, the same bucket setting and
\* the same faults. ev holds the call, its environment and what came back.
KeyStates ==
    {Absent, Garbage, Json(OldDoc), Json(ClaimedDoc), Json(BystanderDoc),
     Json(ForeignDoc), Json(NewerDoc)}
\* a key that fails, fails the same way at every read of the call
PersistEnvs == {e \in RetryEnvs : \A i \in 1..(max_retries + 1) : e.fs[i] = e.fs[1]}

CheckEvent(call, vid, e, ret, other, reads, legacy_reads) ==
    [call |-> call, vid |-> vid, env |-> e, ret |-> ret, other |-> other,
     reads |-> reads, legacy_reads |-> legacy_reads]

ChecksFrame == UNCHANGED <<store, now, pc, op, loaded, invoked, started, overlap, notes, batch, agent>>

InitChecks ==
    /\ store \in [canon : KeyStates, legacy : KeyStates]
    /\ now = 1
    /\ pc = [p \in Procs |-> "idle"]
    /\ op = [p \in Procs |-> NoOp]
    /\ loaded = [p \in Procs |-> empty_index]
    /\ invoked = [v \in Vids |-> 0]
    /\ started = 0
    /\ overlap = FALSE
    /\ notes = {OldProcessed.note_path}
    /\ batch = NoBatch
    /\ agent = NoAgent
    /\ ev = CheckEvent("init", "none", NoBucket, "None", "None", 0, 0)

\* is_video_processed_s3(v)
CallCheckS3(v) ==
    /\ \E e \in RetryEnvs :
         LET r == is_video_processed_s3(store, v, e.bucket, e.fs, e.f2) IN
         ev' = CheckEvent("is_video_processed_s3", v, e, r.ret, r.ret, r.reads, r.legacy_reads)
    /\ ChecksFrame

\* is_video_processed_s3(v) and is_video_processed(v)
CallBothChecks(v) ==
    /\ \E e \in PersistEnvs :
         LET r == is_video_processed_s3(store, v, e.bucket, e.fs, e.f2)
             q == is_video_processed(store, v, e.bucket, e.fs[1], e.f2)
         IN  ev' = CheckEvent("checks", v, e, r.ret, q.ret, r.reads, r.legacy_reads)
    /\ ChecksFrame

\* the load at the head of mark_video_processing_s3 and load_processed_index:
\* whether each returned a document
CallBothLoads ==
    /\ \E e \in PersistEnvs :
         LET r == ClaimLoadIndex(store, e.bucket, e.fs[1], e.f2)
             q == load_processed_index(store, e.bucket, e.fs[1], e.f2)
         IN  ev' = CheckEvent("loads", "none", e, r.exc = "none", q.exc = "none", 0, 0)
    /\ ChecksFrame

NextChecks ==
    \/ \E v \in Vids : CallCheckS3(v)
    \/ \E v \in Vids : CallBothChecks(v)
    \/ CallBothLoads

SpecChecks == InitChecks /\ [][NextChecks]_vars


(* ============================ the claims =============================== *)
AllVids == Vids \cup {"v0"}
SavePcs == {"claim_save", "commit_save", "checkpoint_save"}

\* the document a load that answered from `src` returned
DocOf(st, src) ==
    IF src = "canon" THEN st.canon.doc
    ELSE IF src = "legacy" THEN st.legacy.doc
    ELSE empty_index

StatusIn(d, v) == IF HasVideo(d, v) THEN d.videos[v].status ELSE "absent"
\* the status of v in the canonical document
StatusC(st, v) ==
    IF st.canon.kind = "json" THEN StatusIn(st.canon.doc, v) ELSE "absent"
ProcessedC(st, v) == StatusC(st, v) = "processed"
ClaimedC(st, v) == StatusC(st, v) = "processing"

\* the document a load without faults returns: the canonical one, else the
\* legacy one, else the empty index
StoredDoc(st) ==
    IF st.canon.kind = "json" THEN st.canon.doc
    ELSE IF st.canon.kind = "absent" /\ st.legacy.kind = "json" THEN st.legacy.doc
    ELSE empty_index

\* this step is the load step of a claim by p
ClaimLoads(p) ==
    /\ pc[p] = "new"
    /\ pc'[p] # "new"
    /\ ev'.call \in {"claim", "claim_load"}

\* this step is a save that overwrites a canonical key changed since the
\* saver's load
StaleSave ==
    \E p \in Procs :
        pc[p] \in SavePcs /\ pc'[p] # pc[p] /\ ev'.put = "ok" /\ ~Current(p)

\* C1: when the load of the index fails with the load error, claim
\* (mark_video_processing_s3), commit (mark_video_processed) and
\* checkpoint_feed (update_channel_checked) make no put_object call and the
\* store is the same before and after the call.
C1_NoBlindOverwrite ==
    [][(ev'.call \in {"claim", "commit", "checkpoint"} /\ ev'.load = "error")
          => (ev'.put = "none" /\ store' = store)]_vars

\* a commit met the load error while the canonical key holds a document
C1_Witness ==
    /\ ev.call = "commit"
    /\ ev.load = "error"
    /\ ev.put = "none"
    /\ store.canon.kind = "json"

\* C2: load_processed_index returns the empty index only when the document
\* is absent at the canonical key and at the legacy key; every other failure
\* raises ProcessedIndexLoadError.
C2_EmptyOnlyWhenAbsent ==
    (ev.call \in {"is_video_processed", "commit_load", "checkpoint_load"}
        /\ ev.load = "fresh")
      => (store.canon.kind = "absent" /\ store.legacy.kind = "absent")


Rank(st, v) ==
    IF StatusC(st, v) = "processed" THEN 2
    ELSE IF StatusC(st, v) = "processing" THEN 1 ELSE 0
Forward == \A v \in AllVids : Rank(store, v) <= Rank(store', v)

\* C3 as stated: the status stored for an id only moves forward, absent ->
\* processing -> processed, under any interleaving of the load and save
\* steps of concurrent claim, commit and checkpoint_feed calls.
C3_ForwardAnyInterleaving == [][Forward]_vars

\* C3 as amended: the status of an id in the canonical document only moves
\* forward in every step that is not a save over a canonical key that
\* another save changed since the saver's load.
C3_ForwardUnlessStale == [][~StaleSave => Forward]_vars

\* a commit of v1 went through, no save was stale, and the older entry v0
\* is still processed beside it
C3_Witness ==
    /\ ev.call = "commit"
    /\ ev.put = "ok"
    /\ ~overlap
    /\ ProcessedC(store, "v0")
    /\ ProcessedC(store, "v1")

\* C4 as stated: over any interleaving of concurrent pollers the pipeline
\* is started at most once per item id.
C4_AtMostOnce == \A v \in Vids : invoked[v] <= 1

\* C4 as amended: the pipeline is started at most once per item id in every
\* run in which no save overwrote a canonical key that another save had
\* changed since the saver's load.
C4_AtMostOnceUnlessStale == ~overlap => \A v \in Vids : invoked[v] <= 1

\* the pipeline ran once for v1 and a second poller's claim was turned away
C4_Witness ==
    /\ invoked["v1"] = 1
    /\ ~overlap
    /\ ev.call = "claim"
    /\ ev.ret = "False"
    /\ ev.load = "canon"
    /\ started = 2

\* the record of v is processed and came from a claim followed by a commit
Committed(st, v) ==
    /\ ProcessedC(st, v)
    /\ st.canon.doc.videos[v].processing_started # None

\* C5 as stated: after the commit that follows a successful claim, no write
\* of a second claim replaces the processed record, whenever that second
\* claim did its load.
C5_NeverClobbered ==
    [][(ev'.call = "claim" /\ ev'.put = "ok")
          => \A v \in Vids : Committed(store, v) => ProcessedC(store', v)]_vars

\* C5 as amended: a second claim whose load observes the committed record
\* returns false without writing, and a claim's write replaces a committed
\* record only when its load preceded the save it overwrites.
C5_NotClobberedOnceObserved ==
    [][/\ \A p \in Procs :
            (ClaimLoads(p) /\ ev'.load = "canon" /\ Committed(store, op[p].vid))
              => /\ ev'.call = "claim"
                 /\ ev'.ret = "False"
                 /\ ev'.put = "none"
                 /\ pc'[p] = "idle"
                 /\ store' = store
       /\ (ev'.call = "claim" /\ ev'.put = "ok"
             /\ \E v \in Vids : Committed(store, v) /\ ~ProcessedC(store', v))
            => StaleSave]_vars

\* a second claim loaded the record that the first claim's pipeline
\* committed, and was turned away
C5_Witness ==
    /\ ev.call = "claim"
    /\ ev.ret = "False"
    /\ ev.load = "canon"
    /\ ev.put = "none"
    /\ Committed(store, "v1")

\* C6: of two claims of the same id, the second loading what the first
\* saved, the first returns true and the second returns false without
\* writing.
C6_ClaimExclusive ==
    [][\A p \in Procs :
          /\ (pc[p] = "claim_save" /\ pc'[p] # "claim_save" /\ ev'.put = "ok")
               => (ev'.ret = "True" /\ ClaimedC(store', op[p].vid))
          /\ (ClaimLoads(p) /\ ev'.load = "canon" /\ ClaimedC(store, op[p].vid))
               => /\ ev'.call = "claim"
                  /\ ev'.ret = "False"
                  /\ ev'.put = "none"
                  /\ pc'[p] = "idle"
                  /\ store' = store]_vars

\* the first claim returned true and is about to invoke, the second loaded
\* the first one's record and returned false
C6_Witness ==
    /\ ev.call = "claim"
    /\ ev.ret = "False"
    /\ ev.load = "canon"
    /\ ClaimedC(store, "v1")
    /\ \E q \in Procs : pc[q] = "invoke" /\ op[q].vid = "v1"


\* C7: once the stored record of an id has status processed, every later
\* is_processed(id) returns true and every later claim(id) returns false
\* and leaves the record unchanged.
C7_Terminal ==
    StatusIn(StoredDoc(store), ev.vid) = "processed"
      => /\ ev.call = "is_video_processed" => ev.ret = "True"
         /\ ev.call = "claim" => (ev.ret = "False" /\ ev.put = "none")

\* C8: is_video_processed returns true when the load raises the load error,
\* otherwise whether the id is a key of videos of the loaded document,
\* whatever the status of the record; it never writes.
C8_IsProcessed ==
    [][ev'.call = "is_video_processed"
          => /\ store' = store
             /\ ev'.put = "none"
             /\ ev'.load = "error" => ev'.ret = "True"
             /\ ev'.load # "error"
                  => ev'.ret = B(StatusIn(DocOf(store, ev'.load), ev'.vid)
                                    \in {"processing", "processed"})]_vars

\* is_video_processed answered true for a record that is only claimed
C8_Witness ==
    /\ ev.call = "is_video_processed"
    /\ ev.load = "canon"
    /\ ev.ret = "True"
    /\ ClaimedC(store, "v1")

\* C9: is_video_processed_s3 returns False only if the video is confirmed
\* not processed: the index was read and does not hold the id, or it is
\* absent at both keys.
C9_FalseOnlyIfConfirmed ==
    (ev.call = "is_video_processed_s3" /\ ev.ret = "False")
      => \/ ev.load \in {"canon", "legacy"} /\ ~HasVideo(DocOf(store, ev.load), ev.vid)
         \/ store.canon.kind = "absent" /\ store.legacy.kind = "absent"

\* C10: a claim on an index that holds the id, with any status, returns
\* false and does not write; a claim on an index without the id hands to
\* put_object the loaded index with videos[id] = {status processing,
\* processing_started now, the given title, channel id and channel name}
\* added and every other entry as loaded.
C10_Claim ==
    [][\A p \in Procs :
          LET v == op[p].vid
              d == DocOf(store, ev'.load)
              w == store'.canon.doc
          IN  /\ (ClaimLoads(p) /\ ev'.load # "error")
                   => /\ store' = store
                      /\ HasVideo(d, v)
                           => /\ ev'.call = "claim"
                              /\ ev'.ret = "False"
                              /\ ev'.put = "none"
                              /\ pc'[p] = "idle"
                      /\ (~HasVideo(d, v) /\ "videos" \in DOMAIN d)
                           => (pc'[p] = "claim_save" /\ loaded'[p] = d)
              /\ (pc[p] = "claim_save" /\ pc'[p] # "claim_save" /\ ev'.put = "ok")
                   => /\ store'.canon.kind = "json"
                      /\ store'.legacy = store.legacy
                      /\ DOMAIN w = DOMAIN loaded[p]
                      /\ \A k \in DOMAIN w \ {"videos"} : w[k] = loaded[p][k]
                      /\ DOMAIN w.videos = DOMAIN loaded[p].videos \cup {v}
                      /\ \A x \in DOMAIN w.videos \ {v} : w.videos[x] = loaded[p].videos[x]
                      /\ w.videos[v] =
                           [processing_started |-> now, status |-> "processing",
                            title |-> VideoInfo(v).title,
                            channel_id |-> VideoInfo(v).channel_id,
                            channel_name |-> VideoInfo(v).channel_name]]_vars

\* a claim added v1 to an index that already held the older entry v0
C10_Witness ==
    /\ ev.call = "claim"
    /\ ev.put = "ok"
    /\ ev.ret = "True"
    /\ ClaimedC(store, "v1")
    /\ ProcessedC(store, "v0")

\* C11: the claim returns True only if its put succeeded, and then the
\* canonical document holds videos[id] with status "processing" exactly as
\* this call wrote it; when the put fails the claim returns False, the call
\* is over without another put (no retry) and the store is unchanged.
C11_TrueOnlyIfSaved ==
    [][\A p \in Procs :
         (pc[p] = "claim_save" /\ pc'[p] # pc[p]) =>
            /\ ev'.call = "claim"
            /\ (ev'.ret = "True") <=> (ev'.put = "ok")
            /\ ev'.put = "ok" =>
                  /\ store'.canon.kind = "json"
                  /\ HasVideo(store'.canon.doc, op[p].vid)
                  /\ store'.canon.doc.videos[op[p].vid] = ProcessingRecord(op[p].args, now)
            /\ ev'.put # "ok" =>
                  /\ ev'.ret = "False"
                  /\ store' = store
                  /\ pc'[p] = "idle"]_vars

\* a claim whose put failed has returned False and left an existing document as it was
C11_Witness ==
    /\ ev.call = "claim" /\ ev.put = "failed" /\ ev.ret = "False"
    /\ store.canon = Json(BystanderDoc)

\* C12: a commit that goes through stores status "processed" with
\* processed_at and note_path of this commit, and keeps the
\* processing_started the record of the id held before it (the value the
\* claim wrote, also over an earlier commit); with no record of the id
\* before it, it stores processing_started as null.
C12_CommitKeepsClaimTime ==
    [][\A p \in Procs :
         (pc[p] = "commit_save" /\ pc'[p] # pc[p] /\ ev'.put = "ok") =>
            LET v == op[p].vid
                rec == store'.canon.doc.videos[v]
            IN  /\ rec.status = "processed"
                /\ rec.processed_at = now
                /\ rec.note_path = op[p].note_path
                /\ (Current(p) /\ StatusC(store, v) # "absent") =>
                      rec.processing_started = store.canon.doc.videos[v].processing_started
                /\ (Current(p) /\ StatusIn(StoredDoc(store), v) = "absent") =>
                      rec.processing_started = None]_vars

\* a claim of this run was followed by a commit at a later time: the record
\* is processed and still carries the time of the claim
C12_Witness ==
    /\ ev.call = "commit" /\ ev.put = "ok"
    /\ invoked["v1"] = 1
    /\ ProcessedC(store, "v1")
    /\ store.canon.doc.videos["v1"].processing_started = 1
    /\ store.canon.doc.videos["v1"].processed_at = 2

\* C13: when the load inside commit raises the load error, commit skips the
\* write and its caller save_note observes an error outcome, not the result
\* of a successful commit.
C13_LoadErrorSurfaced ==
    (ev.call = "commit" /\ ev.load = "error") => (ev.put = "none" /\ ev.ret = "error")

BothAbsent(st) == st.canon.kind = "absent" /\ st.legacy.kind = "absent"
\* the calls whose step is the load of the index
LoadCalls == {"is_video_processed", "is_video_processed_s3",
              "claim_load", "commit_load", "checkpoint_load"}
\* this step is a load of the index, alone or at the head of a claim, a
\* commit or a checkpoint
LoadStep ==
    \/ ev'.call \in LoadCalls
    \/ (ev'.call \in {"claim", "commit", "checkpoint"} /\ ev'.put = "none")

\* C14: fresh start. With the document absent at the canonical and at the
\* legacy key, a load whose reads meet no fault returns the empty index
\* {videos: {}, channels: {}} without an error, the claim or commit it heads
\* goes on to its save, and that save, once the put goes through, succeeds
\* and creates the canonical document holding the record of the id.
C14_FreshStart ==
    [][/\ (LoadStep /\ BothAbsent(store) /\ ev'.fault = "False") =>
            /\ ev'.load = "fresh"
            /\ ev'.call \in LoadCalls
            /\ ev'.call \in {"is_video_processed", "is_video_processed_s3"}
                  => ev'.ret = "False"
            /\ \A p \in Procs : pc'[p] \in SavePcs /\ pc[p] # pc'[p]
                                    => loaded'[p] = empty_index
       /\ \A p \in Procs :
            (pc[p] \in {"claim_save", "commit_save"} /\ pc'[p] # pc[p]
               /\ op[p].src = "fresh" /\ BothAbsent(store) /\ ev'.put = "ok") =>
                 /\ ev'.ret \in {"True", "success"}
                 /\ store'.canon.kind = "json"
                 /\ DOMAIN store'.canon.doc = {"videos", "channels"}
                 /\ DOMAIN store'.canon.doc.videos = {op[p].vid}
                 /\ store'.canon.doc.channels = EmptyMap
                 /\ store'.legacy = store.legacy]_vars

\* a commit on a fresh start created the canonical document
C14_Witness ==
    /\ ev.call = "commit" /\ ev.load = "fresh" /\ ev.put = "ok"
    /\ store.legacy.kind = "absent"
    /\ store.canon.kind = "json"
    /\ DOMAIN store.canon.doc.videos = {"v1"}
    /\ ~overlap

LegacyOnly(st) == st.canon.kind = "absent" /\ st.legacy.kind = "json"

\* C15: fallback read. With the canonical key absent and a document at the
\* legacy key, a load whose reads meet no fault (alone in is_processed, or
\* at the head of a claim, a commit or a checkpoint) returns exactly the
\* legacy document; and a load answers from the legacy key, or from neither
\* key, only when the canonical key is absent.
C15_FallbackRead ==
    [][/\ (LoadStep /\ LegacyOnly(store) /\ ev'.fault = "False") =>
            /\ ev'.load = "legacy"
            /\ ev'.call \in {"is_video_processed", "is_video_processed_s3"}
                  => ev'.ret = B(HasVideo(store.legacy.doc, ev'.vid))
            /\ ev'.call = "claim" => HasVideo(store.legacy.doc, ev'.vid)
            /\ \A p \in Procs : pc'[p] \in SavePcs /\ pc[p] # pc'[p]
                                    => loaded'[p] = store.legacy.doc
       /\ (LoadStep /\ ev'.load \in {"legacy", "fresh"}) =>
            store.canon.kind = "absent"]_vars

\* a commit has loaded the legacy document while the canonical key is absent
C15_Witness ==
    /\ ev.call = "commit_load" /\ ev.load = "legacy" /\ ev.fault = "False"
    /\ LegacyOnly(store)
    /\ \E p \in Procs : pc[p] = "commit_save" /\ loaded[p] = store.legacy.doc
                          /\ HasVideo(loaded[p], "v0")

\* document w is document l but for the entry k of its mapping m: the other
\* mappings are the same (present or not), and so is every other entry of m
OnlyEntryChanged(l, w, m, k) ==
    /\ DOMAIN w = (DOMAIN l) \cup {m}
    /\ \A n \in (DOMAIN l) \ {m} : w[n] = l[n]
    /\ DOMAIN w[m] = (DOMAIN GetOr(l, m)) \cup {k}
    /\ \A x \in (DOMAIN GetOr(l, m)) \ {k} : w[m][x] = l[m][x]

\* C16: frame. The document a checkpoint_feed saves is the document it
\* loaded but for channels[feed_id]: the videos mapping is as loaded; the
\* document a claim or a commit for id saves is the document it loaded but for
\* videos[id]: every other item record and the channels mapping are as
\* loaded. Only the canonical key is written.
C16_Frame ==
    [][\A p \in Procs :
         (pc[p] \in SavePcs /\ pc'[p] # pc[p] /\ ev'.put = "ok") =>
            LET l == loaded[p]
                w == store'.canon.doc
            IN  /\ store'.legacy = store.legacy
                /\ pc[p] = "checkpoint_save" =>
                      OnlyEntryChanged(l, w, "channels", op[p].args.channel_id)
                /\ pc[p] \in {"claim_save", "commit_save"} =>
                      OnlyEntryChanged(l, w, "videos", op[p].vid)]_vars

\* a checkpoint went through on a document that holds two videos and another
\* channel; a commit went through on it as well
C16_Witness ==
    /\ ev.call \in {"checkpoint", "commit"} /\ ev.put = "ok" /\ ~overlap
    /\ store.canon.kind = "json"
    /\ DOMAIN GetOr(store.canon.doc, "videos") = {"v0", "v1"}
    /\ DOMAIN GetOr(store.canon.doc, "channels") = {"UC0", "UC1"}
    /\ store.canon.doc.channels["UC1"].last_video_id = "v1"
    /\ ProcessedC(store, "v1")

\* the fields this version writes in an item record and in a feed record
ItemFields == {"processed_at", "processing_started", "status", "title",
               "channel_id", "channel_name", "note_path"}
FeedFields == {"name", "url", "last_checked", "last_video_id"}
\* every field of record old outside `known` is in record new with its value
ExtraKept(old, new, known) ==
    \A f \in (DOMAIN old) \ known : f \in DOMAIN new /\ new[f] = old[f]

\* C17: forward compatibility. After a commit for id on an existing record
\* that carries fields of another writer version, and after a
\* checkpoint_feed on an existing feed record that carries such fields, the
\* stored record still carries them.
C17_ExtraFieldsKept ==
    [][\A p \in Procs :
         (pc[p] \in {"commit_save", "checkpoint_save"} /\ pc'[p] # pc[p]
            /\ ev'.put = "ok") =>
            LET l == loaded[p]
                w == store'.canon.doc
                c == op[p].args.channel_id
            IN  /\ (pc[p] = "commit_save" /\ HasVideo(l, op[p].vid)) =>
                      ExtraKept(l.videos[op[p].vid], w.videos[op[p].vid], ItemFields)
                /\ (pc[p] = "checkpoint_save" /\ c \in DOMAIN GetOr(l, "channels")) =>
                      ExtraKept(l.channels[c], w.channels[c], FeedFields)]_vars

\* the item ids a load that meets no fault returns
IdsOf(st) == DOMAIN GetOr(StoredDoc(st), "videos")

\* C18: item ids are never deleted. In every step that is not a save over a
\* canonical key that another save changed since the saver's load (calls
\* that do not overlap have none), whatever faults the gets and puts of the
\* calls met, the set of ids a successful load returns keeps every id it had.
C18_IdsNeverLost == [][~StaleSave => IdsOf(store) \subseteq IdsOf(store')]_vars

\* this step ends a poll attempt in which the feed reader returned an item:
\* fetch_and_process returns after the check found the item processed, or a
\* poll of fetch_and_process or of the get_latest_channel_video tool that
\* went on past its check ends
PollOver ==
    \/ (ev'.call = "is_video_processed_s3" /\ ev'.ret = "True")
    \/ \E p \in Procs : /\ op[p].kind \in {"poll", "channel"}
                        /\ pc[p] # "idle"
                        /\ pc'[p] = "idle"

\* C19: a poll attempt in which the feed reader returned an item, new or
\* already processed, ends with a call of checkpoint_feed
\* (update_channel_checked), in fetch_and_process as in the
\* get_latest_channel_video tool path.
C19_AlwaysCheckpoint == [][PollOver => ev'.call = "checkpoint"]_vars

\* C20: a failure inside checkpoint_feed, of its load or of its save, does
\* not abort the poll: nothing is raised out of the tool call and the run
\* goes on with the feed reader's result.
C20_CheckpointBestEffort ==
    (ev.call = "checkpoint" /\ (ev.load = "error" \/ ev.put = "failed"))
       => (ev.ret # "raise" /\ ev.out = "None")

\* the URLs of the results, in order
ResultUrls(results) == [k \in 1..Len(results) |-> results[k].channel_url]

\* C21: batch isolation (SpecBatch). While a run over several feeds loops,
\* the results hold exactly one entry per non-blank feed passed so far,
\* whatever the earlier feeds did; when it is done every non-blank feed of
\* the list has its one result, total = successful + failed, the Lambda
\* batch status is 200 iff failed = 0 and 207 otherwise, and run_scheduled
\* exits with 0 iff failed = 0.
C21_BatchIsolation ==
    /\ batch.pc = "loop" =>
          ResultUrls(batch.results)
             = SelectSeq(SubSeq(batch.feeds, 1, batch.i - 1), NonBlank)
    /\ batch.pc = "done" =>
          /\ ResultUrls(batch.results) = SelectSeq(Feeds(batch.given), NonBlank)
          /\ batch.total = Len(batch.results)
          /\ batch.total = batch.successful + batch.failed
          /\ batch.failed = Cardinality({k \in 1..Len(batch.results) :
                                            ~batch.results[k].success})
          /\ batch.entry = "lambda" =>
                /\ batch.status[2] \in {200, 207}
                /\ (batch.status[2] = 200) <=> (batch.failed = 0)
          /\ batch.entry = "run_scheduled" =>
                (batch.status[2] = 0) <=> (batch.failed = 0)

\* a Lambda batch of three entries, the second blank: the first feed failed,
\* the third was checked all the same, and the status is 207
C21_Witness ==
    /\ batch.entry = "lambda" /\ batch.pc = "done"
    /\ Len(batch.given) = 3 /\ batch.given[2] = ""
    /\ batch.results = <<[channel_url |-> 1, success |-> FALSE],
                         [channel_url |-> 3, success |-> TRUE]>>
    /\ batch.status = <<"statusCode", 207>>

\* this step ends a run of fetch_and_process (ev'.out is what it returns)
FetchReturns ==
    /\ ev'.out # "None"
    /\ \/ ev'.call \in {"feed", "is_video_processed_s3", "transcript", "claim", "invoke"}
       \/ (ev'.call = "pipeline_end"
             /\ \E p \in Procs : op[p].kind = "poll" /\ pc[p] # "idle" /\ pc'[p] = "idle")

\* C22: fetch_and_process returns True only if the pipeline invocation
\* returned status 200 or the id of the video was already in the index; in
\* every other outcome it returns False.
C22_TrueOnlyIfDone ==
    [][(FetchReturns /\ ev'.out = "True") =>
          \/ ev'.call = "pipeline_end"
          \/ HasVideo(StoredDoc(store), ev'.vid)]_vars

\* C23: claim precedes pipeline. In fetch_and_process the Lambda is invoked
\* for an id only from the step after a claim of this run returned True,
\* the claim is reached only after the check of this run returned False
\* (the transcript fetch lies between them and ends the run when it fails),
\* one call issues one invocation, and a run whose check returned True,
\* whose transcript fetch failed or whose claim returned False invokes
\* nothing.
C23_ClaimPrecedesPipeline ==
    [][/\ \A p \in Procs :
            /\ (pc'[p] = "new" /\ pc[p] # "new") =>
                  (pc[p] = "idle" /\ ev'.call = "is_video_processed_s3"
                                  /\ ev'.ret = "False")
            /\ (pc'[p] = "claim_save" /\ pc[p] # "claim_save") => pc[p] = "new"
            /\ (pc'[p] = "invoke" /\ pc[p] # "invoke") =>
                  (pc[p] = "claim_save" /\ ev'.call = "claim" /\ ev'.ret = "True"
                     /\ ev'.put = "ok")
       /\ \A v \in Vids :
            invoked'[v] # invoked[v] =>
               /\ invoked'[v] = invoked[v] + 1
               /\ \E p \in Procs : /\ pc[p] = "invoke" /\ pc'[p] = "pipeline"
                                    /\ op[p].kind = "poll" /\ op[p].vid = v
       /\ (ev'.call \in {"is_video_processed_s3", "transcript", "claim"}
              /\ ev'.out # "None") => invoked' = invoked]_vars

\* the Lambda was invoked once, by a run whose claim is in the index
C23_Witness ==
    /\ ev.call = "invoke" /\ ev.ret = "None"
    /\ invoked["v1"] = 1
    /\ ClaimedC(store, "v1")
    /\ \E p \in Procs : pc[p] = "pipeline" /\ op[p].kind = "poll"

\* C24: when the transcript fetch of the poller fails, the run has written
\* no claim and no commit and ends there: the store is the same before and
\* after, nothing is invoked, and the run is at the point before its claim.
C24_TranscriptFailureNoTrace ==
    [][(ev'.call = "transcript" /\ ev'.ret = "error") =>
          /\ store' = store
          /\ invoked' = invoked
          /\ ev'.out = "False"
          /\ \E p \in Procs : /\ pc[p] = "new" /\ pc'[p] = "idle"
                               /\ op[p].kind = "poll" /\ op[p].src = "none"
                               /\ loaded[p] = empty_index]_vars

\* the transcript fetch failed, the id is in no document and a further poll
\* can start
C24_Witness ==
    /\ ev.call = "transcript" /\ ev.ret = "error"
    /\ store.legacy.kind = "absent"
    /\ StatusC(store, "v1") = "absent"
    /\ started < MaxOps

\* C25: stuck claim. While the canonical document holds the record of an id
\* with status "processing", every check of a poll cycle (of
\* fetch_and_process and of the get_latest_channel_video tool) returns True,
\* so the cycle stops before the claim and invokes nothing; and no step
\* other than a commit, or a save over a key changed since the saver's
\* load, alters the record: it stays "processing".
C25_StuckClaim ==
    [][\A v \in Vids :
         StatusC(store, v) = "processing" =>
            /\ (ev'.call \in {"is_video_processed", "is_video_processed_s3"}
                   /\ ev'.vid = v) =>
                  /\ ev'.ret = "True"
                  /\ store' = store
                  /\ invoked' = invoked
                  /\ \A p \in Procs : pc'[p] # pc[p] => pc'[p] # "new"
            /\ (ev'.call # "commit" /\ ~StaleSave) =>
                  /\ StatusC(store', v) = "processing"
                  /\ store'.canon.doc.videos[v] = store.canon.doc.videos[v]]_vars

\* a run claimed v1 next to v0 and ended without a commit (the invocation
\* failed); a later poll cycle found the record and stopped
C25_Witness ==
    /\ ev.call = "is_video_processed_s3" /\ ev.ret = "True" /\ ev.load = "canon"
    /\ \A p \in Procs : pc[p] = "idle"
    /\ started = 2
    /\ invoked["v1"] = 0
    /\ ClaimedC(store, "v1")
    /\ DOMAIN store.canon.doc.videos = {"v0", "v1"}
    /\ "priority" \notin DOMAIN store.canon.doc.videos["v1"]

\* C26: the pipeline runner commits an id only after the note was written,
\* with note_path the path that write returned: the record a commit stores
\* carries the path of the note this save_note call wrote; when the note
\* write fails the store is left alone and the call does not reach the
\* commit; and every record with status "processed" in the canonical
\* document names a note that is in the bucket.
C26_CommitAfterNote ==
    /\ [](\A v \in AllVids :
             ProcessedC(store, v) => store.canon.doc.videos[v].note_path \in notes)
    /\ [][\A p \in Procs :
            /\ (pc'[p] = "commit_save" /\ pc[p] # "commit_save") =>
                  /\ pc[p] = "pipeline"
                  /\ op'[p].note_path \in notes'
            /\ (pc[p] = "commit_save" /\ pc'[p] # pc[p] /\ ev'.put = "ok") =>
                  /\ store'.canon.doc.videos[op[p].vid].note_path = op[p].note_path
                  /\ op[p].note_path \in notes
            /\ (pc[p] = "pipeline" /\ ev'.call = "save_note" /\ ev'.ret = "error"
                   /\ pc'[p] # pc[p]) =>
                  /\ store' = store
                  /\ notes' = notes
                  /\ pc'[p] = "wrapup"]_vars

\* a commit stored the path of the note written at time 2
C26_Witness ==
    /\ ev.call = "commit" /\ ev.put = "ok"
    /\ ProcessedC(store, "v1")
    /\ store.canon.doc.videos["v1"].note_path = save_to_s3("note", 2)
    /\ save_to_s3("note", 2) \in notes

\* C27: notification is best-effort. A send, whatever it meets, comes back
\* as a value (success, skipped or error), never as an exception; it leaves
\* the index document and the notes as they are, so a committed record and
\* its note stay; and the run stays where it was, so a failed send before
\* save_note does not keep the commit from happening.
C27_NotificationBestEffort ==
    [][ev'.call = "send_slack_notification" =>
          /\ ev'.ret \in {"success", "skipped", "error"}
          /\ ev'.out = "None"
          /\ store' = store
          /\ notes' = notes
          /\ pc' = pc /\ op' = op]_vars

\* the notification failed after the commit: the processed record and its
\* note are there
C27_Witness ==
    /\ ev.call = "send_slack_notification" /\ ev.ret = "error"
    /\ ProcessedC(store, "v1")
    /\ store.canon.doc.videos["v1"].note_path = save_to_s3("note", 1)
    /\ save_to_s3("note", 1) \in notes
    /\ \E p \in Procs : pc[p] = "wrapup" /\ op[p].vid = "v1"

\* the shape of one item record
RecordShape(rec) ==
    /\ "status" \in DOMAIN rec
    /\ rec.status \in {"processing", "processed"}
    /\ rec.status = "processing" =>
          /\ "processing_started" \in DOMAIN rec
          /\ rec.processing_started # None
          /\ "processed_at" \notin DOMAIN rec
          /\ "note_path" \notin DOMAIN rec
    /\ rec.status = "processed" =>
          /\ "processed_at" \in DOMAIN rec /\ rec.processed_at # None
          /\ "note_path" \in DOMAIN rec /\ rec.note_path[1] = "notes"
          /\ "processing_started" \in DOMAIN rec
          /\ (rec.processing_started = None
              \/ rec.processing_started \in 1..rec.processed_at)

\* C28: record shape. In every reachable state each item record of the
\* canonical document has status processing or processed; a processing
\* record carries processing_started and neither processed_at nor note_path;
\* a processed record carries processed_at and note_path, and its
\* processing_started is null or the time a claim wrote, which is not later
\* than processed_at.
C28_RecordShape ==
    store.canon.kind = "json" =>
        \A v \in DOMAIN GetOr(store.canon.doc, "videos") :
            RecordShape(store.canon.doc.videos[v])

\* a commit turned the claim of time 1 into a processed record that keeps
\* the claim's time, next to a processed record that never had a claim
C28_Witness ==
    /\ ev.call = "commit" /\ ev.put = "ok"
    /\ ProcessedC(store, "v1") /\ ProcessedC(store, "v0")
    /\ store.canon.doc.videos["v1"].processing_started = 1
    /\ store.canon.doc.videos["v1"].processed_at = 2
    /\ store.canon.doc.videos["v0"].processing_started = None

\* C29: every save overwrites the canonical key only. A step that changes
\* the store is a successful put of a claim, a commit or a checkpoint, it
\* leaves a document at the canonical key, and no step of any operation
\* changes what the legacy key holds.
C29_LegacyNeverWritten ==
    [][/\ store'.legacy = store.legacy
       /\ store' # store =>
             /\ ev'.call \in {"claim", "commit", "checkpoint"}
             /\ ev'.put = "ok"
             /\ store'.canon.kind = "json"]_vars

\* a commit was saved while the legacy key holds the document of an earlier
\* deployment: the canonical key has the new document, the legacy key the
\* old one
C29_Witness ==
    /\ ev.call = "commit" /\ ev.put = "ok"
    /\ store.legacy = Json(BystanderDoc)
    /\ store.canon.kind = "json"
    /\ ProcessedC(store, "v1") /\ ProcessedC(store, "v0")

\* C30: migration keeps history. From a store that holds the legacy document
\* only, the first save of a claim, a commit or a checkpoint writes to the
\* canonical key a document with every item record and every feed record of
\* the legacy document, the written entry apart, so the ids a load returned
\* before the save are returned after it.
C30_MigrationKeepsHistory ==
    [][(LegacyOnly(store) /\ store' # store) =>
          LET old == store.legacy.doc
              new == store'.canon.doc
          IN  /\ \A v \in DOMAIN old.videos :
                    /\ v \in DOMAIN GetOr(new, "videos")
                    /\ (ev'.call = "checkpoint" \/ v # ev'.vid) => new.videos[v] = old.videos[v]
              /\ \A c \in DOMAIN old.channels :
                    /\ c \in DOMAIN GetOr(new, "channels")
                    /\ ev'.call # "checkpoint" => new.channels[c] = old.channels[c]
              /\ IdsOf(store) \subseteq IdsOf(store')]_vars

\* C31: a pre-fetched-transcript run makes no checkpoint. The tools it
\* offers leave out get_transcript and get_latest_channel_video, it executes
\* offered tools only, and the only write to the index it makes, from its
\* start to its end, is the commit of save_note.
C31_NoCheckpointInPrefetched ==
    agent.entry = "run_agent_with_transcript" =>
        /\ OfferedTools(agent.entry) \cap excluded_tools = {}
        /\ \A k \in 1..Len(agent.executed) : agent.executed[k] \notin excluded_tools
        /\ agent.writes \subseteq {"commit"}

\* a pre-fetched run has ended after its save_note made the commit
C31_Witness ==
    /\ agent.entry = "run_agent_with_transcript"
    /\ agent.pc = "done"
    /\ agent.turn = 2
    /\ agent.writes = {"commit"}

\* the i-th read of the canonical key raises something other than NoSuchKey
CanonReadFails(st, e, i) == e.fs[i] # "none" \/ st.canon.kind = "garbage"
\* the reads of the canonical key that a call under e makes
CanonReads(st, e) ==
    IF \A i \in 1..(max_retries + 1) : CanonReadFails(st, e, i)
    THEN max_retries + 1
    ELSE (CHOOSE i \in 1..(max_retries + 1) :
              /\ ~CanonReadFails(st, e, i)
              /\ \A j \in 1..(i - 1) : CanonReadFails(st, e, j))

\* C32: is_video_processed_s3 ends with a boolean after at most
\* max_retries + 1 reads of the canonical key. A read that raises is retried
\* until the attempts are used up, and then the answer is True; a read that
\* finds the key absent is the last one and is followed by one read of the
\* legacy key; a read that returns a document is the last one and no legacy
\* read follows; without a bucket the answer is True and nothing is read.
C32_CheckTerminates ==
    ev.call = "is_video_processed_s3" =>
        /\ ev.ret \in BOOLEAN
        /\ ev.reads <= max_retries + 1
        /\ ev.legacy_reads <= 1
        /\ ~ev.env.bucket => (ev.ret /\ ev.reads = 0 /\ ev.legacy_reads = 0)
        /\ ev.env.bucket =>
              /\ ev.reads = CanonReads(store, ev.env)
              /\ (\A i \in 1..(max_retries + 1) : CanonReadFails(store, ev.env, i))
                    => (ev.ret /\ ev.legacy_reads = 0)
              /\ ev.legacy_reads = 1 <=>
                    (store.canon.kind = "absent" /\ ev.env.fs[ev.reads] = "none")

\* two reads of the canonical key raised, the third found it absent, and
\* the legacy key answered: three reads, one legacy read, the id is found
C32_Witness ==
    /\ ev.call = "is_video_processed_s3"
    /\ ev.env.bucket
    /\ ev.env.fs[1] = "client" /\ ev.env.fs[2] = "other" /\ ev.env.fs[3] = "none"
    /\ store.canon.kind = "absent" /\ store.legacy = Json(OldDoc)
    /\ ev.reads = 3 /\ ev.legacy_reads = 1 /\ ev.ret

\* C33: the two implementations of the check agree. Against the same store,
\* with the same bucket setting and each key failing the same way for both,
\* is_video_processed_s3 and is_video_processed return the same boolean for
\* the same id, and the load at the head of the claim returns a document
\* exactly when load_processed_index does.
C33_ChecksAgree ==
    ev.call \in {"checks", "loads"} => ev.ret = ev.other

\* C34: the agent loop ends after at most max_turns model calls. It is left
\* at the first response whose stop reason is end_turn or in which no tool
\* was used; when the work on a response ends, every tool_use block of it
\* has been executed once, in the order of the blocks; and the tool-result
\* message is appended for the turns that used a tool and for no other.
C34_AgentLoopBounded ==
    /\ [](agent.turn <= agent.max_turns)
    /\ [][/\ (agent.pc = "loop" /\ agent'.turn # agent.turn) =>
               /\ agent'.turn = agent.turn + 1
               /\ agent'.stop_reason = "end_turn" => agent'.pc = "done"
          /\ (agent.pc = "blocks" /\ agent'.pc # "blocks") =>
               /\ agent'.executed = ToolUses(agent.content)
               /\ agent'.pc \in {"done", "loop"} =>
                     /\ agent'.pc = (IF ToolUses(agent.content) = <<>> THEN "done" ELSE "loop")
                     /\ agent'.result_msgs =
                           agent.result_msgs + (IF ToolUses(agent.content) = <<>> THEN 0 ELSE 1)
          /\ (agent.pc = "blocks" /\ agent'.executed # agent.executed) =>
               agent'.executed = Append(agent.executed, agent.content[agent.i])
          /\ agent.pc \in {"done", "raised"} => agent' = agent]_vars

\* C35: the claim succeeds on every loadable document that does not hold
\* the id, a document without the "videos" key included: its load is
\* followed by the put of the document with the videos mapping created and
\* the processing record in it, and when the put goes through the claim
\* returns True, as the commit does on the same document.
C35_ClaimOnDocWithoutVideos ==
    [][\A p \in Procs :
          LET v == op[p].vid
              d == DocOf(store, ev'.load)
          IN  /\ (ClaimLoads(p) /\ ev'.load # "error" /\ ~HasVideo(d, v))
                   => /\ pc'[p] = "claim_save"
                      /\ ev'.call = "claim_load"
              /\ (pc[p] = "claim_save" /\ pc'[p] # pc[p] /\ ev'.put = "ok")
                   => /\ ev'.ret = "True"
                      /\ store'.canon.doc.videos[v] = ProcessingRecord(op[p].args, now)]_vars
====
